---------------------------- MODULE Spec2Model ----------------------------
(***************************************************************************)
(* Model of the media job pipeline:                                        *)
(*   - process_transcribe_media (services/v1/media/media_transcribe.py):   *)
(*     download, Whisper invocation, subtitle synthesis, materialization;  *)
(*   - merge_audio (routes/v1/video/merge_audio.py): download of the two   *)
(*     assets, FFmpeg invocation, upload.                                  *)
(*                                                                         *)
(* Conventions.                                                            *)
(*   Python None is the empty sequence <<>> and a present value x is <<x>>.*)
(*   A str is a sequence of one-character strings.                         *)
(*   A float number of seconds is an exact rational [num, den] (den > 0,   *)
(*   lowest terms); a timedelta is an integer number of microseconds.      *)
(***************************************************************************)
EXTENDS Integers, Sequences, FiniteSets, TLC

(***************************************************************************)
(* Bounds of the model.                                                    *)
(***************************************************************************)
\* Recognizer results given to the subtitle synthesis (SynthSpec): number
\* of segments, number of words in all segments together, latest time in
\* seconds, and the largest words_per_line.
MaxSegs == 2

MaxWords == 4

MaxTime == 3

MaxWpl == 2

\* Recognizer results inside a whole transcription job (Spec).
JobMaxSegs == 1

JobMaxWords == 1

JobMaxTime == 1

(***************************************************************************)
(* Python values.                                                          *)
(***************************************************************************)
None == <<>>

Some(x) == <<x>>

IsNone(v) == v = <<>>

Min(a, b) == IF a <= b THEN a ELSE b

(***************************************************************************)
(* float arithmetic of lines 107-113, as exact rationals.                  *)
(***************************************************************************)
Abs(n) == IF n < 0 THEN -n ELSE n

RECURSIVE Gcd(_, _)
Gcd(a, b) == IF b = 0 THEN a ELSE Gcd(b, a % b)

\* n / d, d > 0, in lowest terms
Rat(n, d) ==
    LET g == Gcd(Abs(n), d)
    IN  [num |-> n \div g, den |-> d \div g]

RInt(n) == [num |-> n, den |-> 1]

RAdd(x, y) == Rat(x.num * y.den + y.num * x.den, x.den * y.den)

RSub(x, y) == Rat(x.num * y.den - y.num * x.den, x.den * y.den)

RMulInt(i, x) == Rat(i * x.num, x.den)

RDivInt(x, k) == Rat(x.num, x.den * k)

(***************************************************************************)
(* datetime.timedelta(seconds=x): the value is kept in whole microseconds, *)
(* x * 10^6 rounded to the nearest, ties to even.                          *)
(***************************************************************************)
MicrosPerSecond == 1000000

Timedelta(x) ==
    LET n == x.num * MicrosPerSecond
        q == n \div x.den
        r == n % x.den
    IN  IF 2 * r < x.den THEN q
        ELSE IF 2 * r > x.den THEN q + 1
        ELSE IF q % 2 = 0 THEN q ELSE q + 1

(***************************************************************************)
(* str.strip() and str.split() on whitespace; the blank is the only        *)
(* whitespace character of the texts modelled.                             *)
(***************************************************************************)
IsSpace(c) == c = " "

RECURSIVE LStrip(_)
LStrip(s) ==
    IF s = <<>> THEN <<>>
    ELSE IF IsSpace(Head(s)) THEN LStrip(Tail(s)) ELSE s

RECURSIVE RStrip(_)
RStrip(s) ==
    IF s = <<>> THEN <<>>
    ELSE IF IsSpace(s[Len(s)]) THEN RStrip(SubSeq(s, 1, Len(s) - 1)) ELSE s

Strip(s) == RStrip(LStrip(s))

\* words: the words completed so far; cur: the word being read
RECURSIVE SplitFrom(_, _, _)
SplitFrom(s, words, cur) ==
    IF s = <<>> THEN (IF cur = <<>> THEN words ELSE Append(words, cur))
    ELSE IF IsSpace(Head(s))
         THEN SplitFrom(Tail(s), IF cur = <<>> THEN words ELSE Append(words, cur), <<>>)
         ELSE SplitFrom(Tail(s), words, Append(cur, Head(s)))

Split(s) == SplitFrom(s, <<>>, <<>>)

\* fault: "".join(chunk)
RECURSIVE JoinMut(_)
JoinMut(chunk) ==
    IF chunk = <<>> THEN <<>> ELSE chunk[1] \o JoinMut(Tail(chunk))

\* " ".join(chunk)
RECURSIVE Join(_)
Join(chunk) ==
    IF chunk = <<>> THEN <<>>
    ELSE IF Len(chunk) = 1 THEN chunk[1]
    ELSE chunk[1] \o <<" ">> \o Join(Tail(chunk))

(***************************************************************************)
(* Subtitle synthesis, lines 99-141.                                       *)
(***************************************************************************)
Subtitle(index, start, end, content) ==
    [index |-> index, start |-> start, end |-> end, content |-> content]

\* fault: the duration divided by one word too many
DurMut(start, end, words) == RDivInt(RSub(end, start), Len(words) + 1)

\* line 110
Dur(start, end, words) == RDivInt(RSub(end, start), Len(words))

\* fault: the words laid out backwards from the segment start
WordStartMut(start, i, dur) == RSub(start, RMulInt(i, dur))

\* line 112
WordStart(start, i, dur) == RAdd(start, RMulInt(i, dur))

\* lines 111-114: the words and timing entries one segment contributes,
\* for i = i .. Len(words) - 1 (0-based, as enumerate counts)
RECURSIVE WordLoop(_, _, _, _, _)
WordLoop(words, start, dur, i, acc) ==
    IF i >= Len(words) THEN acc
    ELSE LET w_start == WordStart(start, i, dur)
         IN  WordLoop(words, start, dur, i + 1,
                      [all_words |-> Append(acc.all_words, words[i + 1]),
                       word_timings |-> Append(acc.word_timings,
                                               <<w_start, RAdd(w_start, dur)>>)])

\* lines 103-114
RECURSIVE Flatten(_, _)
Flatten(segments, acc) ==
    IF segments = <<>> THEN acc
    ELSE LET segment == Head(segments)
             words == Split(Strip(segment.text))
         IN  IF words = <<>> THEN Flatten(Tail(segments), acc)
             ELSE Flatten(Tail(segments),
                          WordLoop(words, segment.start,
                                   Dur(segment.start, segment.end, words), 0, acc))

\* line 117: all_words[current : current + words_per_line]
Chunk(all_words, current, words_per_line) ==
    SubSeq(all_words, current + 1, Min(current + words_per_line, Len(all_words)))

\* line 119: the 0-based index of the timing entry that gives c_end
ClampedLast(current, chunk, word_timings) ==
    Min(current + Len(chunk) - 1, Len(word_timings) - 1)

\* fault: a window sliding by one word
NextCurrentMut(current, words_per_line) == current + 1

\* line 129
NextCurrent(current, words_per_line) == current + words_per_line

\* lines 115-129
RECURSIVE ChunkLoop(_, _, _, _, _, _)
ChunkLoop(all_words, word_timings, words_per_line, current, subtitle_index, srt_subtitles) ==
    IF ~(current < Len(all_words)) THEN srt_subtitles
    ELSE LET chunk == Chunk(all_words, current, words_per_line)
             c_start == word_timings[current + 1][1]
             c_end == word_timings[ClampedLast(current, chunk, word_timings) + 1][2]
         IN  ChunkLoop(all_words, word_timings, words_per_line,
                       NextCurrent(current, words_per_line), subtitle_index + 1,
                       Append(srt_subtitles,
                              Subtitle(subtitle_index, Timedelta(c_start),
                                       Timedelta(c_end), Join(chunk))))

\* fault: the text not stripped
SegmentCueMut(subtitle_index, segment) ==
    Subtitle(subtitle_index, Timedelta(segment.start), Timedelta(segment.end),
             segment.text)

\* lines 134-139
SegmentCue(subtitle_index, segment) ==
    Subtitle(subtitle_index, Timedelta(segment.start), Timedelta(segment.end),
             Strip(segment.text))

\* lines 131-141
RECURSIVE SegmentLoop(_, _, _)
SegmentLoop(segments, subtitle_index, srt_subtitles) ==
    IF segments = <<>> THEN srt_subtitles
    ELSE SegmentLoop(Tail(segments), subtitle_index + 1,
                     Append(srt_subtitles, SegmentCue(subtitle_index, Head(segments))))

\* line 101: "words_per_line and words_per_line > 0"
WordMode(words_per_line) ==
    /\ ~IsNone(words_per_line)
    /\ words_per_line[1] # 0
    /\ words_per_line[1] > 0

EmptyFlat == [all_words |-> <<>>, word_timings |-> <<>>]

\* lines 115-141: the list srt_subtitles handed to srt.compose, from the
\* words and timings of lines 103-114
Track(segments, words_per_line, flat) ==
    IF WordMode(words_per_line)
    THEN ChunkLoop(flat.all_words, flat.word_timings, words_per_line[1], 0, 1, <<>>)
    ELSE SegmentLoop(segments, 1, <<>>)

\* lines 99-141
Synthesize(segments, words_per_line) ==
    Track(segments, words_per_line, Flatten(segments, EmptyFlat))

(***************************************************************************)
(* Recognizer output (model.transcribe, line 91).  Segments are ordered by *)
(* start and do not overlap; their times are whole seconds.  The words of  *)
(* one result are pairwise distinct: word j is the j-th letter, written    *)
(* once with single blanks between words ("plain": "a b c") or doubled,    *)
(* with Whisper's leading blank and irregular spacing ("padded":           *)
(* " aa  bb  cc ").                                                        *)
(***************************************************************************)
Alphabet == <<"a", "b", "c", "d", "e", "f", "g", "h", "i", "j", "k", "l", "m", "n", "o", "p">>

Styles == {"plain", "padded"}

Word(j, style) ==
    IF style = "plain" THEN <<Alphabet[j]>> ELSE <<Alphabet[j], Alphabet[j]>>

\* the text of a segment holding words first .. first + n - 1
RECURSIVE SegText(_, _, _)
SegText(first, n, style) ==
    IF n = 0 THEN (IF style = "plain" THEN <<>> ELSE <<" ">>)
    ELSE IF style = "plain"
         THEN Word(first, style)
              \o (IF n = 1 THEN <<>> ELSE <<" ">> \o SegText(first + 1, n - 1, style))
         ELSE <<" ">> \o Word(first, style) \o <<" ">> \o SegText(first + 1, n - 1, style)

RECURSIVE Sum(_, _)
Sum(f, k) == IF k = 0 THEN 0 ELSE f[k] + Sum(f, k - 1)

\* the word counts of k segments that hold at most maxWords words together
WordCounts(k, maxWords) == { wc \in [1..k -> 0..maxWords] : Sum(wc, k) <= maxWords }

\* start_1 <= end_1 <= start_2 <= ... <= end_k, within 0..maxTime
TimeVectors(k, maxTime) ==
    { tv \in [1..(2 * k) -> 0..maxTime] : \A i \in 1..(2 * k - 1) : tv[i] <= tv[i + 1] }

\* segments i .. Len(wc), the first of them starting with word number first
RECURSIVE Segments(_, _, _, _, _)
Segments(wc, tv, style, i, first) ==
    IF i > Len(wc) THEN <<>>
    ELSE <<[start |-> RInt(tv[2 * i - 1]), end |-> RInt(tv[2 * i]),
            text |-> SegText(first, wc[i], style)]>>
         \o Segments(wc, tv, style, i + 1, first + wc[i])

RECURSIVE ConcatText(_)
ConcatText(segments) ==
    IF segments = <<>> THEN <<>> ELSE Head(segments).text \o ConcatText(Tail(segments))

\* res is a dict model.transcribe can return: res["text"], res["segments"]
Transcribed(res, maxSegs, maxWords, maxTime) ==
    \E k \in 0..maxSegs :
      \E wc \in WordCounts(k, maxWords), tv \in TimeVectors(k, maxTime), style \in Styles :
        LET segments == Segments(wc, tv, style, 1, 1)
        IN  res = Some([text |-> ConcatText(segments), segments |-> segments])

\* words_per_line: int | None = None (line 48)
WplValues == {None} \cup { Some(n) : n \in 0..MaxWpl }

(***************************************************************************)
(* State.                                                                  *)
(*   pc       the statement the job is at ("idle" before a job is taken,   *)
(*            "done" once the job has returned or raised)                  *)
(*   req      the job's arguments                                          *)
(*   files    local storage: file name -> content, for the files present   *)
(*   net      the calls made to the object store, in order                 *)
(*   result   what model.transcribe returned                               *)
(*   proc     what subprocess.run returned                                 *)
(*   ffmpeg_runs  how many times the muxing engine was started             *)
(*   outcome  how the job ended: returned value or raised exception        *)
(* and the locals of process_transcribe_media, under their own names.      *)
(***************************************************************************)
VARIABLES pc, req, files, net, result, proc, ffmpeg_runs, outcome,
          text, all_words, word_timings, srt_subtitles, srt_text, segments_json,
          text_filename, srt_filename, segments_filename

vars == <<pc, req, files, net, result, proc, ffmpeg_runs, outcome,
          text, all_words, word_timings, srt_subtitles, srt_text, segments_json,
          text_filename, srt_filename, segments_filename>>

transcribe_locals == <<text, all_words, word_timings, srt_subtitles, srt_text, segments_json,
                       text_filename, srt_filename, segments_filename>>

merge_state == <<proc, ffmpeg_runs>>

\* os.path.join(LOCAL_STORAGE_PATH, f"{job_id}_input") and the cloud outputs
input_filename == "LOCAL_STORAGE_PATH/job_input"

TextFile == "LOCAL_STORAGE_PATH/job.txt"

SrtFile == "LOCAL_STORAGE_PATH/job.srt"

SegmentsFile == "LOCAL_STORAGE_PATH/job.json"

\* the paths inside the TemporaryDirectory of merge_audio
vid == "tmp/video.mp4"

aud == "tmp/track"

outp == "tmp/merged.mp4"

TmpFiles == {vid, aud, outp}

\* file system updates
WriteFile(fs, name, content) ==
    [n \in DOMAIN fs \cup {name} |-> IF n = name THEN content ELSE fs[n]]

RemoveFiles(fs, names) == [n \in DOMAIN fs \ names |-> fs[n]]

NoFiles == [n \in {} |-> <<>>]

Returned(value) == [kind |-> "returned", value |-> value]

Raised(exc) == [kind |-> "raised", exc |-> exc]

Init ==
    /\ pc = "idle"
    /\ req = None
    /\ files = NoFiles
    /\ net = <<>>
    /\ result = None
    /\ proc = None
    /\ ffmpeg_runs = 0
    /\ outcome = None
    /\ text = None
    /\ all_words = None
    /\ word_timings = None
    /\ srt_subtitles = None
    /\ srt_text = None
    /\ segments_json = None
    /\ text_filename = None
    /\ srt_filename = None
    /\ segments_filename = None

(***************************************************************************)
(* process_transcribe_media                                                *)
(***************************************************************************)
TranscribeRequests ==
    [ job : {"transcribe"},
      include_text : BOOLEAN, include_srt : BOOLEAN, include_segments : BOOLEAN,
      response_type : {"direct", "cloud"},
      words_per_line : WplValues ]

\* the call of process_transcribe_media with its arguments (lines 37-49)
TStart ==
    /\ pc = "idle"
    /\ \E r \in TranscribeRequests : req' = r
    /\ pc' = "t_download"
    /\ UNCHANGED <<files, net, result, outcome, merge_state, transcribe_locals>>

\* lines 66-68: download_file; a failure here is raised outside the try
TDownload ==
    /\ pc = "t_download"
    /\ net' = Append(net, <<"download", "input">>)
    /\ \/ /\ files' = WriteFile(files, input_filename, "media")
          /\ pc' = "t_load_model"
          /\ UNCHANGED outcome
       \/ /\ outcome' = Raised("FetchError")
          /\ pc' = "done"
          /\ UNCHANGED files
    /\ UNCHANGED <<req, result, merge_state, transcribe_locals>>

\* line 74
TLoadModel ==
    /\ pc = "t_load_model"
    /\ pc' = "t_transcribe"
    /\ UNCHANGED <<req, files, net, result, outcome, merge_state, transcribe_locals>>

\* line 91
TTranscribe ==
    /\ pc = "t_transcribe"
    /\ Transcribed(result', JobMaxSegs, JobMaxWords, JobMaxTime)
    /\ pc' = "t_build"
    /\ UNCHANGED <<req, files, net, outcome, merge_state, transcribe_locals>>

\* line 142: srt.compose belongs to the srt package, which is not part of
\* the repository; the text it returns is kept as the serialization of the
\* list it was given
Compose(subtitles) == [srt |-> subtitles]

\* fault: the flag ignored
BuildTextMut(r, include_text) == Some(r.text)

\* lines 93-96
BuildText(r, include_text) == IF include_text THEN Some(r.text) ELSE None

\* lines 144-145
BuildSegments(r, include_segments) == IF include_segments THEN Some(r.segments) ELSE None

\* lines 93-145
TBuild ==
    /\ pc = "t_build"
    /\ text' = BuildText(result[1], req.include_text)
    /\ IF req.include_srt
       THEN LET flat == Flatten(result[1].segments, EmptyFlat)
            IN  /\ IF WordMode(req.words_per_line)
                   THEN /\ all_words' = Some(flat.all_words)
                        /\ word_timings' = Some(flat.word_timings)
                   ELSE UNCHANGED <<all_words, word_timings>>
                /\ srt_subtitles' = Some(Track(result[1].segments, req.words_per_line, flat))
                /\ srt_text' = Some(Compose(srt_subtitles'[1]))
       ELSE UNCHANGED <<all_words, word_timings, srt_subtitles, srt_text>>
    /\ segments_json' = BuildSegments(result[1], req.include_segments)
    /\ pc' = "t_remove_input"
    /\ UNCHANGED <<req, files, net, result, outcome, merge_state,
                   text_filename, srt_filename, segments_filename>>

\* lines 148-152
TRemoveInput ==
    /\ pc = "t_remove_input"
    /\ files' = RemoveFiles(files, {input_filename})
    /\ IF req.response_type = "direct"
       THEN /\ outcome' = Returned(<<text, srt_text, segments_json>>)
            /\ pc' = "done"
       ELSE /\ pc' = "t_write_text"
            /\ UNCHANGED outcome
    /\ UNCHANGED <<req, net, result, merge_state, transcribe_locals>>

\* with open(name, "w") as f: f.write(content) -- the three ways it ends:
\* written; open() raises and nothing is created; open() creates the file
\* and write() raises
WriteOutcomes == {"ok", "open_raises", "write_raises"}

AfterWrite(fs, name, content, how) ==
    IF how = "ok" THEN WriteFile(fs, name, Some(content))
    ELSE IF how = "write_raises" THEN WriteFile(fs, name, None)
    ELSE fs

\* lines 155-159
TWriteText ==
    /\ pc = "t_write_text"
    /\ IF req.include_text
       THEN \E how \in WriteOutcomes :
              /\ files' = AfterWrite(files, TextFile, text[1], how)
              /\ text_filename' = Some(TextFile)
              /\ IF how = "ok"
                 THEN /\ pc' = "t_write_srt"
                      /\ UNCHANGED outcome
                 ELSE /\ outcome' = Raised("IOError")
                      /\ pc' = "done"
       ELSE /\ pc' = "t_write_srt"
            /\ UNCHANGED <<files, outcome, text_filename>>
    /\ UNCHANGED <<req, net, result, merge_state, text, all_words, word_timings, srt_subtitles,
                   srt_text, segments_json, srt_filename, segments_filename>>

\* lines 160-163
TWriteSrt ==
    /\ pc = "t_write_srt"
    /\ IF req.include_srt
       THEN \E how \in WriteOutcomes :
              /\ files' = AfterWrite(files, SrtFile, srt_text[1], how)
              /\ srt_filename' = Some(SrtFile)
              /\ IF how = "ok"
                 THEN /\ pc' = "t_write_segments"
                      /\ UNCHANGED outcome
                 ELSE /\ outcome' = Raised("IOError")
                      /\ pc' = "done"
       ELSE /\ pc' = "t_write_segments"
            /\ UNCHANGED <<files, outcome, srt_filename>>
    /\ UNCHANGED <<req, net, result, merge_state, text, all_words, word_timings, srt_subtitles,
                   srt_text, segments_json, text_filename, segments_filename>>

\* lines 164-169: str(segments_json) is written, and the paths are returned
TWriteSegments ==
    /\ pc = "t_write_segments"
    /\ IF req.include_segments
       THEN \E how \in WriteOutcomes :
              /\ files' = AfterWrite(files, SegmentsFile, [str |-> segments_json[1]], how)
              /\ segments_filename' = Some(SegmentsFile)
              /\ outcome' = IF how = "ok"
                            THEN Returned(<<text_filename, srt_filename, segments_filename'>>)
                            ELSE Raised("IOError")
              /\ pc' = "done"
       ELSE /\ outcome' = Returned(<<text_filename, srt_filename, segments_filename>>)
            /\ pc' = "done"
            /\ UNCHANGED <<files, segments_filename>>
    /\ UNCHANGED <<req, net, result, merge_state, text, all_words, word_timings, srt_subtitles,
                   srt_text, segments_json, text_filename, srt_filename>>

\* lines 171-173: an exception raised by a call inside the try (the model
\* load, the engine, the synthesis, os.remove) is logged and raised again;
\* the handler touches no file
TryStages == {"t_load_model", "t_transcribe", "t_build", "t_remove_input"}

TRaise ==
    /\ pc \in TryStages
    /\ outcome' = Raised(IF pc = "t_remove_input" THEN "IOError" ELSE "ToolError")
    /\ pc' = "done"
    /\ UNCHANGED <<req, files, net, result, merge_state, transcribe_locals>>

TranscribeNext ==
    \/ TStart
    \/ TDownload
    \/ TLoadModel
    \/ TTranscribe
    \/ TBuild
    \/ TRemoveInput
    \/ TWriteText
    \/ TWriteSrt
    \/ TWriteSegments
    \/ TRaise

(***************************************************************************)
(* merge_audio                                                             *)
(* A URL is the sequence of its parts, "/" being a part of its own.        *)
(***************************************************************************)
GcsPrefix == <<"https:", "/", "/", "storage.googleapis.com", "/">>

BUCKET_NAME == "bucket"

Urls ==
    { GcsPrefix \o <<"bucket", "/", "video.mp4">>,
      GcsPrefix \o <<"bucket", "/", "dir", "/", "track.mp3">>,
      GcsPrefix \o <<"bucket">>,
      <<"http:", "/", "/", "storage.googleapis.com", "/", "bucket", "/", "video.mp4">>,
      <<"https:", "/", "/", "example.com", "/", "track.mp3">> }

MergeRequests == [ job : {"merge"}, video_url : Urls, audio_url : Urls ]

\* what the engine may write to its diagnostic stream
Diagnostics == { "", "track: Invalid data found when processing input" }

Returncodes == {0, 1}

Uuids == {"uuid1", "uuid2"}

Endpoint == "/v1/video/merge-audio"

\* str.startswith
StartsWith(s, prefix) ==
    /\ Len(s) >= Len(prefix)
    /\ SubSeq(s, 1, Len(prefix)) = prefix

\* lines 47-49: .replace(prefix, "").split("/", 1) gives two parts only
\* when a "/" follows the bucket name
HasBlobName(gcs_url) ==
    \E i \in (Len(GcsPrefix) + 1)..Len(gcs_url) : gcs_url[i] = "/"

\* lines 45-49: the exception _download raises before it calls the store,
\* or None
DownloadRejects(gcs_url) ==
    IF ~StartsWith(gcs_url, GcsPrefix) THEN Some("ValueError: URL must be a public GCS link")
    ELSE IF ~HasBlobName(gcs_url) THEN Some("ValueError: not enough values to unpack")
    ELSE None

\* leaving the "with tempfile.TemporaryDirectory()" block (line 75), by
\* return or by exception, removes the directory and what it holds
Cleanup(fs) == RemoveFiles(fs, TmpFiles)

\* the call of merge_audio (line 66) up to the paths of lines 76-78
MStart ==
    /\ pc = "idle"
    /\ \E r \in MergeRequests : req' = r
    /\ pc' = "m_download_video"
    /\ UNCHANGED <<files, net, result, outcome, merge_state, transcribe_locals>>

\* _download (lines 40-50) called at here, then going to next
MDownload(here, gcs_url, dest, next) ==
    /\ pc = here
    /\ IF ~IsNone(DownloadRejects(gcs_url))
       THEN /\ outcome' = Raised(DownloadRejects(gcs_url)[1])
            /\ files' = Cleanup(files)
            /\ pc' = "done"
            /\ UNCHANGED net
       ELSE /\ net' = Append(net, <<"download", dest>>)
            /\ \/ /\ files' = WriteFile(files, dest, "media")
                  /\ pc' = next
                  /\ UNCHANGED outcome
               \/ /\ outcome' = Raised("FetchError")
                  /\ files' = Cleanup(files)
                  /\ pc' = "done"
    /\ UNCHANGED <<req, result, merge_state, transcribe_locals>>

\* line 81
MDownloadVideo == MDownload("m_download_video", req.video_url, vid, "m_download_audio")

\* line 82
MDownloadAudio == MDownload("m_download_audio", req.audio_url, aud, "m_ffmpeg")

\* fault: only exit statuses above 1 taken as failure
FfmpegFailedMut(p) == p.returncode > 1

\* line 94
FfmpegFailed(p) == p.returncode # 0

\* lines 93-96: subprocess.run and the failure return; the engine leaves
\* an output file when it succeeds and may leave one when it fails
MFfmpeg ==
    /\ pc = "m_ffmpeg"
    /\ \E rc \in Returncodes, err \in Diagnostics, wrote \in BOOLEAN :
         LET p == [returncode |-> rc, stderr |-> err]
             fs == IF rc = 0 \/ wrote THEN WriteFile(files, outp, "merged") ELSE files
         IN  /\ proc' = Some(p)
             /\ ffmpeg_runs' = ffmpeg_runs + 1
             /\ IF FfmpegFailed(p)
                THEN /\ outcome' = Returned(<<p.stderr, Endpoint, 500>>)
                     /\ files' = Cleanup(fs)
                     /\ pc' = "done"
                ELSE /\ files' = fs
                     /\ pc' = "m_upload"
                     /\ UNCHANGED outcome
    /\ UNCHANGED <<req, net, result, transcribe_locals>>

\* line 93: subprocess.run raises when the engine cannot be started
MRunRaises ==
    /\ pc = "m_ffmpeg"
    /\ outcome' = Raised("OSError")
    /\ files' = Cleanup(files)
    /\ pc' = "done"
    /\ UNCHANGED <<req, net, result, merge_state, transcribe_locals>>

\* line 57
PublicUrl(uuid) == GcsPrefix \o <<BUCKET_NAME, "/", "merged", "/", uuid, ".mp4">>

\* lines 99-101 with _upload (lines 52-57)
MUpload ==
    /\ pc = "m_upload"
    /\ \E uuid \in Uuids, how \in {"ok", "upload_raises", "make_public_raises"} :
         /\ net' = IF how = "upload_raises"
                   THEN Append(net, <<"upload", uuid>>)
                   ELSE net \o << <<"upload", uuid>>, <<"make_public", uuid>> >>
         /\ outcome' = IF how = "ok"
                       THEN Returned(<<PublicUrl(uuid), Endpoint, 200>>)
                       ELSE Raised("GoogleCloudError")
    /\ files' = Cleanup(files)
    /\ pc' = "done"
    /\ UNCHANGED <<req, result, merge_state, transcribe_locals>>

MergeNext ==
    \/ MStart
    \/ MDownloadVideo
    \/ MDownloadAudio
    \/ MFfmpeg
    \/ MRunRaises
    \/ MUpload

(***************************************************************************)
(* Spec: one job, of either kind, from its call to its return or raise.    *)
(***************************************************************************)
Next == TranscribeNext \/ MergeNext

Spec == Init /\ [][Next]_vars

(***************************************************************************)
(* SynthSpec: the synthesis step (TBuild) of a transcription job that asks *)
(* for subtitles, on every recognizer result within the synthesis bounds.  *)
(***************************************************************************)
SynthRequests ==
    { r \in TranscribeRequests :
        /\ r.include_srt
        /\ ~r.include_text
        /\ ~r.include_segments
        /\ r.response_type = "direct" }

SynthInit ==
    /\ pc = "t_build"
    /\ req \in SynthRequests
    /\ files = WriteFile(NoFiles, input_filename, "media")
    /\ net = << <<"download", "input">> >>
    /\ Transcribed(result, MaxSegs, MaxWords, MaxTime)
    /\ proc = None
    /\ ffmpeg_runs = 0
    /\ outcome = None
    /\ text = None
    /\ all_words = None
    /\ word_timings = None
    /\ srt_subtitles = None
    /\ srt_text = None
    /\ segments_json = None
    /\ text_filename = None
    /\ srt_filename = None
    /\ segments_filename = None

SynthNext == TBuild

SynthSpec == SynthInit /\ [][SynthNext]_vars

(***************************************************************************)
(* Vocabulary of the properties.                                           *)
(***************************************************************************)
Done == pc = "done"

IsMerge == pc # "idle" /\ req.job = "merge"

IsTranscribe == pc # "idle" /\ req.job = "transcribe"

\* TBuild has run
Built == pc = "t_remove_input"

ScratchFiles == {input_filename} \cup TmpFiles

OutputFiles == {TextFile, SrtFile, SegmentsFile}

Present == DOMAIN files

RequestedFiles ==
    (IF req.include_text THEN {TextFile} ELSE {})
    \cup (IF req.include_srt THEN {SrtFile} ELSE {})
    \cup (IF req.include_segments THEN {SegmentsFile} ELSE {})

ValidationErrors ==
    { "ValueError: URL must be a public GCS link",
      "ValueError: not enough values to unpack" }

HasCall(kind) == \E i \in 1..Len(net) : net[i][1] = kind

\* the whitespace-delimited words of all segments, in order
RECURSIVE SegmentWords(_)
SegmentWords(segments) ==
    IF segments = <<>> THEN <<>>
    ELSE Split(Head(segments).text) \o SegmentWords(Tail(segments))

\* the cue texts joined in order, split on whitespace
CueWords(track) == Split(Join([i \in 1..Len(track) |-> track[i].content]))

CeilDiv(n, d) == (n + d - 1) \div d

\* c is t without its leading and trailing blanks
IsTrimOf(c, t) ==
    /\ c # <<>> => ~IsSpace(c[1]) /\ ~IsSpace(c[Len(c)])
    /\ \E i \in 0..(Len(t) - Len(c)) :
         /\ SubSeq(t, i + 1, i + Len(c)) = c
         /\ \A k \in 1..Len(t) : (k <= i \/ k > i + Len(c)) => IsSpace(t[k])

\* the timedelta td is exactly x seconds
ExactSeconds(td, x) == td * x.den = x.num * MicrosPerSecond

\* the timedelta td is x seconds to the nearest microsecond
NearestMicro(td, x) == 2 * Abs(td * x.den - x.num * MicrosPerSecond) <= x.den

\* the intervals [start + i*D/k, start + (i+1)*D/k), i = 0 .. k-1, of the
\* segments that have k > 0 words
RECURSIVE UniformTimings(_)
UniformTimings(segments) ==
    IF segments = <<>> THEN <<>>
    ELSE LET g == Head(segments)
             k == Len(Split(g.text))
             D == RSub(g.end, g.start)
         IN  [i \in 1..k |-> <<RAdd(g.start, RDivInt(RMulInt(i - 1, D), k)),
                               RAdd(g.start, RDivInt(RMulInt(i, D), k))>>]
             \o UniformTimings(Tail(segments))

\* 1-based positions of the first and last word of cue c
FirstWord(c, wpl) == (c - 1) * wpl + 1

LastWord(c, wpl, total) == Min(c * wpl, total)

(***************************************************************************)
(* C1.  Scratch cleanup: once a job (merge or transcription) has returned  *)
(* or raised, on any exit path after its input was downloaded, none of its *)
(* scratch files (downloaded inputs, intermediate output) is on local      *)
(* storage.                                                                *)
(***************************************************************************)
C1_ScratchRemovedOnEveryExit == Done => Present \cap ScratchFiles = {}

\* the part of C1 about merge jobs, which the TemporaryDirectory gives
C1_MergeScratchRemoved == Done /\ IsMerge => Present \cap ScratchFiles = {}

(***************************************************************************)
(* C2.  A merge job with a video_url or audio_url that does not start with *)
(* the accepted prefix is rejected with a validation error before any      *)
(* download is attempted for either input.                                 *)
(***************************************************************************)
C2_RejectedBeforeAnyDownload ==
    (/\ IsMerge
     /\ \/ ~StartsWith(req.video_url, GcsPrefix)
        \/ ~StartsWith(req.audio_url, GcsPrefix))
    => /\ net = <<>>
       /\ Done => outcome.kind = "raised" /\ outcome.exc \in ValidationErrors

\* the part of C2 that _download gives: no call is made for a rejected URL
C2_NoDownloadOfRejectedUrl ==
    IsMerge =>
      /\ ~StartsWith(req.video_url, GcsPrefix) => net = <<>>
      /\ ~StartsWith(req.audio_url, GcsPrefix)
           => \A i \in 1..Len(net) : net[i] # <<"download", aud>>

(***************************************************************************)
(* C3.  A transcription job leaves no partial output: when it ends in      *)
(* failure none of <job_id>.txt, <job_id>.srt, <job_id>.json exists and    *)
(* nothing is returned; when it ends in success every requested artifact   *)
(* exists.                                                                 *)
(***************************************************************************)
C3_NoPartialOutput ==
    (Done /\ IsTranscribe) =>
      /\ outcome.kind = "raised" => Present \cap OutputFiles = {}
      /\ (outcome.kind = "returned" /\ req.response_type = "cloud")
           => RequestedFiles \subseteq Present
      /\ outcome.kind = "returned" =>
           /\ req.include_text => ~IsNone(outcome.value[1])
           /\ req.include_srt => ~IsNone(outcome.value[2])
           /\ req.include_segments => ~IsNone(outcome.value[3])

(***************************************************************************)
(* C4.  Word-count mode preserves words: the cue texts joined in order and *)
(* split on whitespace are exactly the whitespace-delimited words of all   *)
(* segments in their original order; nothing is dropped, duplicated or     *)
(* reordered, and a segment without words contributes nothing.             *)
(***************************************************************************)
C4_WordsPreserved ==
    (Built /\ WordMode(req.words_per_line))
    => CueWords(srt_subtitles[1]) = SegmentWords(result[1].segments)

\* a chunk straddles the boundary of two segments that both have words
C4_Witness ==
    /\ Built
    /\ req.words_per_line = Some(2)
    /\ Len(result[1].segments) = 2
    /\ Len(Split(result[1].segments[1].text)) = 3
    /\ Len(Split(result[1].segments[2].text)) = 1
    /\ Len(srt_subtitles[1]) = 2

(***************************************************************************)
(* C5.  Word-count mode cue count: there are ceil(total words /            *)
(* words_per_line) cues, every cue but the last holds exactly              *)
(* words_per_line words, the last holds 1..words_per_line, and no words    *)
(* give no cues.                                                           *)
(***************************************************************************)
C5_CueCount ==
    (Built /\ WordMode(req.words_per_line))
    => LET track == srt_subtitles[1]
           wpl == req.words_per_line[1]
           total == Len(SegmentWords(result[1].segments))
       IN  /\ Len(track) = CeilDiv(total, wpl)
           /\ \A c \in 1..(Len(track) - 1) : Len(Split(track[c].content)) = wpl
           /\ Len(track) > 0 => Len(Split(track[Len(track)].content)) \in 1..wpl
           /\ total = 0 => track = <<>>

\* several cues, the last one short
C5_Witness ==
    /\ Built
    /\ WordMode(req.words_per_line)
    /\ Len(srt_subtitles[1]) >= 2
    /\ Len(Split(srt_subtitles[1][Len(srt_subtitles[1])].content)) < req.words_per_line[1]

(***************************************************************************)
(* C6.  Word-count mode timing: word i of a segment with k words and       *)
(* duration D gets [start + i*D/k, start + (i+1)*D/k); a cue starts at the *)
(* start bound of its first word and ends at the end bound of its last     *)
(* word; the word list and the timing list have equal length, so the clamp *)
(* of line 119 never changes the index; the two worked examples hold.      *)
(***************************************************************************)
Hello == <<"h", "e", "l", "l", "o">>

World == <<"w", "o", "r", "l", "d">>

ExampleSegments1 ==
    <<[start |-> RInt(0), end |-> RInt(2), text |-> Hello \o <<" ">> \o World]>>

ExampleTrack1 ==
    << Subtitle(1, 0, MicrosPerSecond, Hello),
       Subtitle(2, MicrosPerSecond, 2 * MicrosPerSecond, World) >>

ExampleSegments2 ==
    << [start |-> RInt(0), end |-> RInt(3), text |-> <<"a", " ", "b", " ", "c">>],
       [start |-> RInt(3), end |-> RInt(4), text |-> <<"d">>] >>

ExampleTrack2 ==
    << Subtitle(1, 0, 2 * MicrosPerSecond, <<"a", " ", "b">>),
       Subtitle(2, 2 * MicrosPerSecond, 4 * MicrosPerSecond, <<"c", " ", "d">>) >>

\* what C6 says of the words and the clamp, and the two examples of spec
\* section 8 run through the synthesis
C6_WordTimings ==
    LET track == srt_subtitles[1]
        wpl == req.words_per_line[1]
    IN  /\ word_timings[1] = UniformTimings(result[1].segments)
        /\ Len(all_words[1]) = Len(word_timings[1])
        /\ \A c \in 1..Len(track) :
             LET current == (c - 1) * wpl
                 chunk == Chunk(all_words[1], current, wpl)
             IN  ClampedLast(current, chunk, word_timings[1]) = current + Len(chunk) - 1
        /\ Synthesize(ExampleSegments1, Some(1)) = ExampleTrack1
        /\ Synthesize(ExampleSegments2, Some(2)) = ExampleTrack2

\* C6 as stated: the cue bounds are exactly the word bounds
C6_CueBoundsExact ==
    (Built /\ WordMode(req.words_per_line))
    => LET track == srt_subtitles[1]
           wpl == req.words_per_line[1]
           timings == UniformTimings(result[1].segments)
       IN  /\ C6_WordTimings
           /\ \A c \in 1..Len(track) :
                /\ ExactSeconds(track[c].start, timings[FirstWord(c, wpl)][1])
                /\ ExactSeconds(track[c].end, timings[LastWord(c, wpl, Len(timings))][2])

\* C6 amended: the cue bounds are the word bounds to the nearest
\* microsecond, the resolution of timedelta
C6_CueBoundsNearestMicro ==
    (Built /\ WordMode(req.words_per_line))
    => LET track == srt_subtitles[1]
           wpl == req.words_per_line[1]
           timings == UniformTimings(result[1].segments)
       IN  /\ C6_WordTimings
           /\ \A c \in 1..Len(track) :
                /\ NearestMicro(track[c].start, timings[FirstWord(c, wpl)][1])
                /\ NearestMicro(track[c].end, timings[LastWord(c, wpl, Len(timings))][2])

\* a cue bound that is no whole number of microseconds, in a track of
\* several cues
C6_Witness ==
    /\ Built
    /\ WordMode(req.words_per_line)
    /\ Len(srt_subtitles[1]) >= 2
    /\ \E i \in 1..Len(word_timings[1]) :
         (word_timings[1][i][1].num * MicrosPerSecond) % word_timings[1][i][1].den # 0

(***************************************************************************)
(* C7.  Monotonicity: in either mode, from segments ordered by start and   *)
(* not overlapping, consecutive cues have non-decreasing start.            *)
(***************************************************************************)
C7_StartsMonotonic ==
    Built => \A c \in 1..(Len(srt_subtitles[1]) - 1) :
               srt_subtitles[1][c + 1].start >= srt_subtitles[1][c].start

\* word-count mode, cues from two segments of positive duration
C7_Witness ==
    /\ Built
    /\ WordMode(req.words_per_line)
    /\ Len(result[1].segments) = 2
    /\ \A i \in 1..2 : result[1].segments[i].start # result[1].segments[i].end
    /\ Len(srt_subtitles[1]) >= 3
    /\ srt_subtitles[1][3].start > srt_subtitles[1][1].start

(***************************************************************************)
(* C8.  Per-segment mode: with words_per_line 0 or absent, N segments give *)
(* exactly N cues in segment order, cue i having index i, the start and    *)
(* end of segment i and its trimmed text; a segment with empty text still  *)
(* gives a cue.                                                            *)
(***************************************************************************)
C8_OneCuePerSegment ==
    (Built /\ (IsNone(req.words_per_line) \/ req.words_per_line = Some(0)))
    => LET track == srt_subtitles[1]
           segments == result[1].segments
       IN  /\ Len(track) = Len(segments)
           /\ \A i \in 1..Len(segments) :
                /\ track[i].index = i
                /\ ExactSeconds(track[i].start, segments[i].start)
                /\ ExactSeconds(track[i].end, segments[i].end)
                /\ IsTrimOf(track[i].content, segments[i].text)

\* two segments, one blank and one with padded words
C8_Witness ==
    /\ Built
    /\ req.words_per_line = Some(0)
    /\ Len(srt_subtitles[1]) = 2
    /\ srt_subtitles[1][1].content = <<>>
    /\ result[1].segments[1].text = <<" ">>
    /\ Len(result[1].segments[2].text) > Len(srt_subtitles[1][2].content)
    /\ srt_subtitles[1][2].content # <<>>

(***************************************************************************)
(* C9.  In a merge job a non-zero exit status of the engine gives status   *)
(* 500 with the engine's diagnostic stream unmodified as body, no upload   *)
(* and no public URI; an upload, and a public URI with status 200, occur   *)
(* only after both inputs were downloaded and the engine exited with       *)
(* status zero; the engine is started at most once per job.                *)
(***************************************************************************)
C9_EngineFailureReported ==
    IsMerge =>
      /\ ffmpeg_runs <= 1
      /\ (Done /\ ~IsNone(proc) /\ proc[1].returncode # 0)
           => /\ outcome = Returned(<<proc[1].stderr, Endpoint, 500>>)
              /\ ~HasCall("upload")
              /\ ~HasCall("make_public")
      /\ (HasCall("upload") \/ HasCall("make_public"))
           => /\ Len(net) >= 3
              /\ net[1] = <<"download", vid>>
              /\ net[2] = <<"download", aud>>
              /\ net[3][1] = "upload"
              /\ ffmpeg_runs = 1
              /\ proc[1].returncode = 0
      /\ (Done /\ outcome.kind = "returned" /\ outcome.value[3] = 200)
           => /\ HasCall("upload")
              /\ HasCall("make_public")
              /\ \E uuid \in Uuids :
                   /\ outcome.value[1] = PublicUrl(uuid)
                   /\ net[3] = <<"upload", uuid>>
      /\ (Done /\ outcome.kind = "returned")
           => outcome.value[3] = (IF proc[1].returncode = 0 THEN 200 ELSE 500)

\* the engine failed with a diagnostic after both downloads
C9_Witness ==
    /\ IsMerge
    /\ Done
    /\ Len(net) = 2
    /\ ~IsNone(proc)
    /\ proc[1].returncode # 0
    /\ proc[1].stderr # ""
    /\ outcome.kind = "returned"
    /\ outcome.value[1] = proc[1].stderr

(***************************************************************************)
(* C10.  In a successful transcription job each of the three returned      *)
(* components is populated exactly when its flag is set.  Direct mode: the *)
(* component is the computed value (text, composed subtitles, segment      *)
(* list) and no output file is written.  Cloud mode: the component is the  *)
(* path <job_id>.txt / .srt / .json, exactly the files of the requested    *)
(* kinds are written, and the other components are null.                   *)
(***************************************************************************)
C10_ComponentsAsRequested ==
    (Done /\ IsTranscribe /\ outcome.kind = "returned")
    => LET v == outcome.value
       IN  /\ IsNone(v[1]) <=> ~req.include_text
           /\ IsNone(v[2]) <=> ~req.include_srt
           /\ IsNone(v[3]) <=> ~req.include_segments
           /\ req.response_type = "direct" =>
                /\ req.include_text => v[1] = Some(result[1].text)
                /\ req.include_srt => v[2] = Some(Compose(srt_subtitles[1]))
                /\ req.include_segments => v[3] = Some(result[1].segments)
                /\ Present \cap OutputFiles = {}
           /\ req.response_type = "cloud" =>
                /\ req.include_text => v[1] = Some(TextFile)
                /\ req.include_srt => v[2] = Some(SrtFile)
                /\ req.include_segments => v[3] = Some(SegmentsFile)
                /\ Present \cap OutputFiles = RequestedFiles

\* cloud mode, two of the three kinds requested
C10_Witness ==
    /\ Done
    /\ IsTranscribe
    /\ outcome.kind = "returned"
    /\ req.response_type = "cloud"
    /\ req.include_text
    /\ ~req.include_srt
    /\ req.include_segments
    /\ Present = {TextFile, SegmentsFile}

=============================================================================
